---- MODULE Spec2Model ----
(***************************************************************************)
(* A model of the GovInfo adapter (src/src/shillelagh_govinfo/govinfo.py): *)
(* URI classification (supports), instantiation (__init__) and the row     *)
(* generator (get_rows).                                                   *)
(*                                                                         *)
(* Text is a sequence of tokens.  Dates, timestamps and numbers are spelt  *)
(* character by character; words that the code only compares as a whole    *)
(* ("collections", "BILLS", "api_key") are one token each; "/", "&" and    *)
(* "=" are tokens, so that splitting is computed, not assumed.             *)
(***************************************************************************)
EXTENDS Integers, Sequences, FiniteSets, TLC

VARIABLES uri, result, inst, gen, delivered, http, ncalls

vars == <<uri, result, inst, gen, delivered, http, ncalls>>

\* ------------------------------------------------------------------ bounds
\* longest path, in segments after the leading "/"
MaxSegs == 5
\* most records in a response's "packages" array
MaxRecords == 2
\* most get_rows calls on one instance
MaxFetches == 2

\* ------------------------------------------------------------- text helpers
Digits == {"0", "1", "2", "3", "4", "5", "6", "7", "8", "9"}

HexDigits == Digits \cup {"A", "B", "C", "D", "E", "F", "a", "b", "c", "d", "e", "f"}

Min(S) == CHOOSE x \in S : \A y \in S : x <= y

\* str.split(sep) on the suffix of s that starts at index i
RECURSIVE SplitFrom(_, _, _)
SplitFrom(s, sep, i) ==
    LET hits == {j \in i..Len(s) : s[j] = sep}
    IN  IF hits = {}
        THEN <<SubSeq(s, i, Len(s))>>
        ELSE <<SubSeq(s, i, Min(hits) - 1)>> \o SplitFrom(s, sep, Min(hits) + 1)

Split(s, sep) == SplitFrom(s, sep, 1)

\* str.split(sep, 1): at most one split
Split1(s, sep) ==
    LET hits == {j \in 1..Len(s) : s[j] = sep}
    IN  IF hits = {}
        THEN <<s>>
        ELSE <<SubSeq(s, 1, Min(hits) - 1), SubSeq(s, Min(hits) + 1, Len(s))>>

\* the character a %XX escape stands for
HexDecode(a, b) ==
    CASE a = "3" /\ b \in {"A", "a"} -> ":"
      [] a = "2" /\ b \in {"D", "d"} -> "-"
      [] a = "2" /\ b \in {"F", "f"} -> "/"
      [] a = "2" /\ b \in {"E", "e"} -> "."
      [] a = "5" /\ b \in {"A", "a"} -> "Z"
      [] a = "5" /\ b = "4" -> "T"
      [] a = "3" /\ b \in Digits -> b
      [] OTHER -> "<byte>"

\* urllib.parse.unquote: %XX becomes its character, a stray % stays
RECURSIVE UnquoteFrom(_, _)
UnquoteFrom(s, i) ==
    IF i > Len(s) THEN <<>>
    ELSE IF s[i] = "%" /\ i + 2 <= Len(s) /\ s[i + 1] \in HexDigits /\ s[i + 2] \in HexDigits
         THEN <<HexDecode(s[i + 1], s[i + 2])>> \o UnquoteFrom(s, i + 3)
         ELSE <<s[i]>> \o UnquoteFrom(s, i + 1)

unquote(s) == UnquoteFrom(s, 1)

\* str.lower on one token
LowerTok(t) ==
    CASE t = "BILLS" -> "bills"
      [] t = "Bills" -> "bills"
      [] t = "CFR" -> "cfr"
      [] t = "T" -> "t"
      [] t = "Z" -> "z"
      [] t = "A" -> "a"
      [] OTHER -> t

lower(s) == [i \in 1..Len(s) |-> LowerTok(s[i])]

\* --------------------------------------------------------- module constants
COLLECTIONS == {<<"bills">>}

\* \d{4}-\d{2}-\d{2}T\d{2}:\d{2}:\d{2}Z, "d" standing for the class \d
DATE_PATTERN ==
    <<"d", "d", "d", "d", "-", "d", "d", "-", "d", "d", "T",
      "d", "d", ":", "d", "d", ":", "d", "d", "Z">>

\* re.Pattern.fullmatch for a pattern of single-character items
fullmatch(pat, s) ==
    /\ Len(s) = Len(pat)
    /\ \A i \in 1..Len(pat) :
          IF pat[i] = "d" THEN s[i] \in Digits ELSE s[i] = pat[i]

\* ------------------------------------------------------------------ results
Return(b) == [kind |-> "return", value |-> b, exc |-> ""]

Raise(e) == [kind |-> "raise", value |-> FALSE, exc |-> e]

Pending == [kind |-> "pending", value |-> FALSE, exc |-> ""]

\* ------------------------------------------------------------ URI inputs
\* the start/end dates of the test URIs, and two near misses
D_ENC == <<"2", "0", "1", "8", "-", "0", "1", "-", "2", "8", "T", "2", "0", "%", "3", "A", "1", "8", "%", "3", "A", "1", "0", "Z">>

D_RAW == <<"2", "0", "1", "8", "-", "0", "1", "-", "2", "9", "T", "2", "0", ":", "1", "8", ":", "1", "0", "Z">>

D_FRAC == <<"2", "0", "1", "8", "-", "1", "0", "-", "2", "1", "T", "1", "3", ":", "3", "1", ":", "4", "2", ".", "3", "6", "3", "9", "2", "6">>

D_LONG == <<"2", "0", "1", "8", "-", "0", "1", "-", "2", "8", "T", "2", "0", ":", "1", "8", ":", "1", "0", "Z", "0">>

Authorities == {<<"https", "://", "api.govinfo.gov">>, <<"https", "://", "example.com">>}

\* first segments other than "collections": the three unimplemented endpoints,
\* a wrong case, an unknown name and the empty segment of the path "/"
OtherEndpoints == {<<"Collections">>, <<"packages">>, <<"published">>, <<"related">>,
                   <<"search">>, <<>>}

\* the candidate segments at path position k (1 = the endpoint)
SegAt(k) ==
    CASE k = 1 -> {<<"collections">>}
      [] k = 2 -> {<<"bills">>, <<"BILLS">>, <<"cfr">>}
      [] k = 3 -> {D_ENC, D_FRAC, D_LONG}
      [] k = 4 -> {D_RAW, D_FRAC, <<>>}
      [] OTHER -> {<<>>}

RECURSIVE PathsFrom(_, _)
PathsFrom(k, n) ==
    IF k > n THEN {<<>>}
    ELSE {<<"/">> \o s \o rest : s \in SegAt(k), rest \in PathsFrom(k + 1, n)}

\* every collections path of 1..MaxSegs segments; the empty path; and each
\* other endpoint alone and in front of a collection and a start date
Paths ==
    UNION {PathsFrom(1, n) : n \in 1..MaxSegs}
        \cup {<<>>}
        \cup {<<"/">> \o e : e \in OtherEndpoints}
        \cup {<<"/">> \o e \o <<"/", "BILLS", "/">> \o D_ENC : e \in OtherEndpoints}

OffsetParts == {<<>>, <<"offset">>, <<"offset", "=", "0">>,
                <<"offset", "=", "&", "offset", "=", "5">>}

PageSizeParts == {<<>>, <<"pageSize", "=">>, <<"pageSize", "=", "1000">>}

ApiKeyParts == {<<>>, <<"api_key", "=">>, <<"api_key", "=", "K">>}

\* a & b, the separator only between two non-empty parts
Amp(a, b) == IF a = <<>> THEN b ELSE IF b = <<>> THEN a ELSE a \o <<"&">> \o b

Queries == {Amp(o, Amp(p, a)) : o \in OffsetParts, p \in PageSizeParts, a \in ApiKeyParts}

URIs == {auth \o path \o (IF q = <<>> THEN <<>> ELSE <<"?">> \o q) :
            auth \in Authorities, path \in Paths, q \in Queries}

\* ---------------------------------------------------------- urllib.parse
\* urlparse: scheme before "://", netloc up to the first "/" or "?", the path
\* up to the first "?", the query after it
urlparse(u) ==
    LET hasAuth == Len(u) >= 2 /\ u[2] = "://"
        rest == IF hasAuth THEN SubSeq(u, 3, Len(u)) ELSE u
        stops == {j \in 1..Len(rest) : rest[j] \in {"/", "?"}}
        cut == IF stops = {} THEN Len(rest) + 1 ELSE Min(stops)
        loc == IF hasAuth THEN SubSeq(rest, 1, cut - 1) ELSE <<>>
        tail == IF hasAuth THEN SubSeq(rest, cut, Len(rest)) ELSE rest
        pq == Split1(tail, "?")
    IN  [scheme |-> IF hasAuth THEN u[1] ELSE "",
         netloc |-> loc,
         path |-> pq[1],
         query |-> IF Len(pq) = 2 THEN pq[2] ELSE <<>>]

\* the name=value pairs parse_qs keeps: it skips empty pairs, pairs without
\* "=" and pairs with a blank value (keep_blank_values is False)
KeptPair(nv) == nv # <<>> /\ Len(Split1(nv, "=")) = 2 /\ Split1(nv, "=")[2] # <<>>

QsPairs(qs) ==
    LET kept == SelectSeq(Split(qs, "&"), KeptPair)
    IN  [i \in 1..Len(kept) |->
            <<unquote(Split1(kept[i], "=")[1]), unquote(Split1(kept[i], "=")[2])>>]

\* parse_qs: each name mapped to its values, in order of appearance
parse_qs(qs) ==
    LET pairs == QsPairs(qs)
        IsName(n) == LET Has(p) == p[1] = n IN SelectSeq(pairs, Has)
    IN  [n \in {pairs[i][1] : i \in 1..Len(pairs)} |->
            [i \in 1..Len(IsName(n)) |-> IsName(n)[i][2]]]

\* ------------------------------------------------------- GovInfoAPI.supports
\* split_path and query_string are Python values; split_path[k] of the code
\* is sp[k + 1] here
\* a faulty variant: the pageSize parameter is not required
supports_collections_no_page_size(sp, qs) ==
    IF Len(sp) < 4 THEN FALSE
    ELSE /\ lower(sp[3]) \in COLLECTIONS
         /\ fullmatch(DATE_PATTERN, unquote(sp[4]))
         /\ (Len(sp) = 5 => fullmatch(DATE_PATTERN, unquote(sp[5])))
         /\ <<"offset">> \in DOMAIN qs

supports_collections(sp, qs) ==
    IF Len(sp) < 4 THEN FALSE
    ELSE LET collection == sp[3]
             start_date == unquote(sp[4])
             supported_collection == lower(collection) \in COLLECTIONS
             valid_start_date == fullmatch(DATE_PATTERN, start_date)
             valid_end_date == IF Len(sp) = 5
                               THEN fullmatch(DATE_PATTERN, unquote(sp[5]))
                               ELSE TRUE
         IN  /\ supported_collection
             /\ valid_start_date
             /\ valid_end_date
             /\ <<"offset">> \in DOMAIN qs
             /\ <<"pageSize">> \in DOMAIN qs

supports_packages(sp, qs) == Raise("NotImplementedError")

\* a faulty variant: the unimplemented endpoint answers False
supports_published_silent(sp, qs) == Return(FALSE)

supports_published(sp, qs) == Raise("NotImplementedError")

supports_related(sp, qs) == Raise("NotImplementedError")

supports(u, f) ==
    LET parsed == urlparse(u)
        query_string == parse_qs(parsed.query)
        split_path == Split(parsed.path, "/")
    IN  IF Len(split_path) < 2 THEN Raise("IndexError")
        ELSE LET endpoint == split_path[2]
                 sub == CASE endpoint = <<"collections">> ->
                                Return(supports_collections(split_path, query_string))
                          [] endpoint = <<"packages">> ->
                                supports_packages(split_path, query_string)
                          [] endpoint = <<"published">> ->
                                supports_published(split_path, query_string)
                          [] endpoint = <<"related">> ->
                                supports_related(split_path, query_string)
                          [] OTHER -> Raise("ProgrammingError")
             IN  IF sub.kind = "raise" THEN sub
                 ELSE Return(/\ parsed.netloc = <<"api.govinfo.gov">>
                             /\ sub.value
                             /\ <<"api_key">> \in DOMAIN query_string)

\* ------------------------------------------------------ GovInfoAPI.__init__
\* Python's None, and the value of an attribute that was never assigned
None == <<"<None>">>

Unset == <<"<unset>">>

NoInstance ==
    [state |-> "none", exc |-> "", url |-> Unset, api_key |-> Unset, endpoint |-> Unset,
     collection |-> Unset, start_date |-> Unset, end_date |-> Unset, offset |-> Unset,
     page_size |-> Unset, session |-> "none"]

Failed(e) == [NoInstance EXCEPT !.state = "raised", !.exc = e]

\* a faulty variant: a 5th component is the end date whatever follows it
init_collections_any_tail(self, sp, qs) ==
    IF Len(sp) < 4 THEN Failed("IndexError")
    ELSE IF <<"offset">> \notin DOMAIN qs \/ <<"pageSize">> \notin DOMAIN qs
         THEN Failed("KeyError")
         ELSE [self EXCEPT !.collection = sp[3],
                           !.start_date = sp[4],
                           !.end_date = IF Len(sp) >= 5 THEN sp[5] ELSE None,
                           !.offset = qs[<<"offset">>][1],
                           !.page_size = qs[<<"pageSize">>][1]]

\* the fields __init__ sets for the collections endpoint
init_collections(self, sp, qs) ==
    IF Len(sp) < 4 THEN Failed("IndexError")
    ELSE IF <<"offset">> \notin DOMAIN qs \/ <<"pageSize">> \notin DOMAIN qs
         THEN Failed("KeyError")
         ELSE [self EXCEPT !.collection = sp[3],
                           !.start_date = sp[4],
                           !.end_date = IF Len(sp) = 5 THEN sp[5] ELSE None,
                           !.offset = qs[<<"offset">>][1],
                           !.page_size = qs[<<"pageSize">>][1]]

\* __init__(uri): the instance, or the exception that leaves none
new_instance(u) ==
    LET parsed == urlparse(u)
        query_string == parse_qs(parsed.query)
        split_path == Split(parsed.path, "/")
    IN  IF <<"api_key">> \notin DOMAIN query_string THEN Failed("KeyError")
        ELSE IF Len(split_path) < 2 THEN Failed("IndexError")
        ELSE LET self == [NoInstance EXCEPT
                             !.state = "ok",
                             !.url = <<parsed.scheme, "://">> \o parsed.netloc,
                             !.api_key = query_string[<<"api_key">>][1],
                             !.endpoint = split_path[2],
                             !.session = "CachedSession"]
             IN  IF self.endpoint = <<"collections">>
                 THEN init_collections(self, split_path, query_string)
                 ELSE self

\* ------------------------------------------------------ GovInfoAPI.get_rows
\* the filters and orders a host may pass; get_rows never reads them
BoundsArgs == {"none", "last_modified_range"}

OrderArgs == {"none", "last_modified_desc"}

\* `x if x else ""`
OrEmpty(x) == IF x = None \/ x = <<>> THEN <<>> ELSE x

\* a faulty variant: a requested order is pushed into the request
build_request_pushdown(self, bounds, order) ==
    [ok |-> self.endpoint = <<"collections">>,
     url |-> self.url \o <<"/">> \o self.endpoint \o <<"/">> \o self.collection \o <<"/">>
                 \o self.start_date \o <<"/">> \o OrEmpty(self.end_date),
     params |-> [offset |-> IF order = "none" THEN self.offset ELSE <<"0">>,
                 pageSize |-> IF order = "none" THEN self.page_size ELSE <<"1">>,
                 api_key |-> self.api_key]]

\* the URL and params of the GET, or the error of a name never bound
build_request(self, bounds, order) ==
    LET base_url == self.url \o <<"/">> \o self.endpoint
    IN  IF self.endpoint = <<"collections">>
        THEN [ok |-> TRUE,
              url |-> base_url \o <<"/">> \o self.collection \o <<"/">> \o self.start_date
                          \o <<"/">> \o OrEmpty(self.end_date),
              params |-> [offset |-> self.offset, pageSize |-> self.page_size,
                          api_key |-> self.api_key]]
        ELSE [ok |-> FALSE, url |-> <<>>,
              params |-> [offset |-> Unset, pageSize |-> Unset, api_key |-> Unset]]

\* the object the GET goes through: the requests module, not self._session
transport(self) == "requests"

\* ---- datetime.strptime(s, "%Y-%m-%dT%H:%M:%SZ")
DigitVal(c) ==
    CASE c = "0" -> 0 [] c = "1" -> 1 [] c = "2" -> 2 [] c = "3" -> 3 [] c = "4" -> 4
      [] c = "5" -> 5 [] c = "6" -> 6 [] c = "7" -> 7 [] c = "8" -> 8 [] c = "9" -> 9

RECURSIVE NumVal(_)
NumVal(ds) ==
    IF ds = <<>> THEN 0
    ELSE 10 * NumVal(SubSeq(ds, 1, Len(ds) - 1)) + DigitVal(ds[Len(ds)])

\* the literals that follow the six directives of the format
FormatLiterals == <<"-", "-", "T", ":", ":", "Z">>

\* the last index of the run of digits that starts at i (i - 1 when empty)
RunEnd(s, i) ==
    LET stops == {j \in i..Len(s) : s[j] \notin Digits}
    IN  IF stops = {} THEN Len(s) ELSE Min(stops) - 1

\* the six digit runs of s, each followed by its literal and the last literal
\* ending s; <<>> when s does not have that shape
RECURSIVE FieldsFrom(_, _, _)
FieldsFrom(s, i, k) ==
    LET e == RunEnd(s, i)
    IN  IF e < i \/ e + 1 > Len(s) \/ s[e + 1] # FormatLiterals[k] THEN <<>>
        ELSE IF k = Len(FormatLiterals)
             THEN IF e + 1 = Len(s) THEN <<SubSeq(s, i, e)>> ELSE <<>>
             ELSE LET rest == FieldsFrom(s, e + 2, k + 1)
                  IN  IF rest = <<>> THEN <<>> ELSE <<SubSeq(s, i, e)>> \o rest

IsLeap(y) == (y % 4 = 0 /\ y % 100 # 0) \/ y % 400 = 0

DaysIn(y, m) ==
    IF m = 2 THEN (IF IsLeap(y) THEN 29 ELSE 28)
    ELSE IF m \in {4, 6, 9, 11} THEN 30 ELSE 31

\* %Y is four digits; the others are one or two digits within their range
\* (%S admits 60 and 61, which datetime then refuses)
strptime(s) ==
    LET f == FieldsFrom(s, 1, 1)
        bad == [ok |-> FALSE, exc |-> "ValueError",
                value |-> [year |-> 0, month |-> 0, day |-> 0,
                           hour |-> 0, minute |-> 0, second |-> 0]]
    IN  IF f = <<>> THEN bad
        ELSE LET y == NumVal(f[1])
                 mo == NumVal(f[2])
                 d == NumVal(f[3])
                 h == NumVal(f[4])
                 mi == NumVal(f[5])
                 sec == NumVal(f[6])
                 shape == /\ Len(f[1]) = 4
                          /\ \A k \in 2..6 : Len(f[k]) <= 2
                          /\ mo \in 1..12 /\ d \in 1..31
                          /\ h \in 0..23 /\ mi \in 0..59 /\ sec \in 0..61
                 valid == y >= 1 /\ d <= DaysIn(y, mo) /\ sec <= 59
             IN  IF shape /\ valid
                 THEN [ok |-> TRUE, exc |-> "",
                       value |-> [year |-> y, month |-> mo, day |-> d,
                                  hour |-> h, minute |-> mi, second |-> sec]]
                 ELSE bad

\* int(s) for a string of decimal digits; anything else is a ValueError
int(s) ==
    IF s # <<>> /\ \A i \in 1..Len(s) : s[i] \in Digits
    THEN [ok |-> TRUE, exc |-> "", value |-> NumVal(s)]
    ELSE [ok |-> FALSE, exc |-> "ValueError", value |-> 0]

RecordKeys == {"packageId", "lastModified", "packageLink", "docClass", "title",
               "congress", "dateIssued"}

NoRow ==
    [package_id |-> <<>>, last_modified |-> strptime(<<>>).value, package_link |-> <<>>,
     doc_class |-> <<>>, title |-> <<>>, congress |-> 0, date_issued |-> <<>>]

\* a faulty variant: package_link is read from packageId
make_row_link_from_id(record) ==
    IF DOMAIN record # RecordKeys THEN [ok |-> FALSE, exc |-> "KeyError", row |-> NoRow]
    ELSE IF ~strptime(record["lastModified"]).ok \/ ~int(record["congress"]).ok
         THEN [ok |-> FALSE, exc |-> "ValueError", row |-> NoRow]
         ELSE [ok |-> TRUE, exc |-> "",
               row |-> [package_id |-> record["packageId"],
                        last_modified |-> strptime(record["lastModified"]).value,
                        package_link |-> record["packageId"],
                        doc_class |-> record["docClass"],
                        title |-> record["title"],
                        congress |-> int(record["congress"]).value,
                        date_issued |-> record["dateIssued"]]]

\* the dict display of the yield: its items are evaluated in order, and the
\* first failure is the one raised
make_row(record) ==
    LET has(k) == k \in DOMAIN record
        fail(e) == [ok |-> FALSE, exc |-> e, row |-> NoRow]
    IN  IF ~has("packageId") \/ ~has("lastModified") THEN fail("KeyError")
        ELSE IF ~strptime(record["lastModified"]).ok THEN fail("ValueError")
        ELSE IF ~has("packageLink") \/ ~has("docClass") \/ ~has("title") \/ ~has("congress")
             THEN fail("KeyError")
        ELSE IF ~int(record["congress"]).ok THEN fail("ValueError")
        ELSE IF ~has("dateIssued") THEN fail("KeyError")
        ELSE [ok |-> TRUE, exc |-> "",
              row |-> [package_id |-> record["packageId"],
                       last_modified |-> strptime(record["lastModified"]).value,
                       package_link |-> record["packageLink"],
                       doc_class |-> record["docClass"],
                       title |-> record["title"],
                       congress |-> int(record["congress"]).value,
                       date_issued |-> record["dateIssued"]]]

\* ------------------------------------------------------ response payloads
\* the package of the test fixture
R_FIXTURE ==
    [packageId |-> <<"BILLS-118hr796ih">>,
     lastModified |-> <<"2", "0", "2", "3", "-", "0", "3", "-", "0", "1", "T", "1", "0", ":", "2", "9", ":", "2", "1", "Z">>,
     packageLink |-> <<"https://api.govinfo.gov/packages/BILLS-118hr796ih/summary">>,
     docClass |-> <<"hr">>,
     title |-> <<"Supply Chain Mapping and Monitoring Act">>,
     congress |-> <<"1", "1", "8">>,
     dateIssued |-> <<"2", "0", "2", "3", "-", "0", "2", "-", "0", "2">>]

\* a second package, last modified on a leap day and written without zero padding
R_SECOND ==
    [packageId |-> <<"BILLS-117s12is">>,
     lastModified |-> <<"2", "0", "2", "4", "-", "2", "-", "2", "9", "T", "2", "3", ":", "5", ":", "0", "Z">>,
     packageLink |-> <<"https://api.govinfo.gov/packages/BILLS-117s12is/summary">>,
     docClass |-> <<"s">>,
     title |-> <<"A bill">>,
     congress |-> <<"1", "1", "7">>,
     dateIssued |-> <<"2", "0", "2", "1", "-", "1", "-", "5">>]

\* a package whose lastModified has fractional seconds
R_BAD_MODIFIED == [R_FIXTURE EXCEPT !.lastModified = <<"2", "0", "2", "3", "-", "0", "3", "-", "0", "1", "T", "1", "0", ":", "2", "9", ":", "2", "1", ".", "3", "6", "3", "9", "2", "6">>]

\* a package whose congress is not a number
R_BAD_CONGRESS == [R_SECOND EXCEPT !.congress = <<"n", "/", "a">>]

Records == {R_FIXTURE, R_SECOND, R_BAD_MODIFIED, R_BAD_CONGRESS}

RECURSIVE SeqsUpTo(_, _)
SeqsUpTo(S, n) ==
    IF n = 0 THEN {<<>>}
    ELSE SeqsUpTo(S, n - 1) \cup
         {Append(q, x) : q \in {p \in SeqsUpTo(S, n - 1) : Len(p) = n - 1}, x \in S}

\* response.json(): an object with or without the "packages" key
Payloads ==
    {[has_packages |-> TRUE, packages |-> ps] : ps \in SeqsUpTo(Records, MaxRecords)}
        \cup {[has_packages |-> FALSE, packages |-> <<>>]}

\* --------------------------------------------------------- the generator
NoGen == [pc |-> "none", payload |-> [has_packages |-> FALSE, packages |-> <<>>],
          idx |-> 0, exc |-> "", gets |-> 0]

\* a faulty variant: a record that cannot be mapped is skipped
RECURSIVE loop_from_skipping(_, _)
loop_from_skipping(g, i) ==
    IF i > Len(g.payload.packages) THEN [g EXCEPT !.pc = "done", !.idx = i]
    ELSE IF make_row(g.payload.packages[i]).ok
         THEN [g EXCEPT !.pc = "suspended", !.idx = i]
         ELSE loop_from_skipping(g, i + 1)

\* the for loop from record i: yield its row, raise, or fall off the end
loop_from(g, i) ==
    IF i > Len(g.payload.packages) THEN [g EXCEPT !.pc = "done", !.idx = i]
    ELSE IF make_row(g.payload.packages[i]).ok
         THEN [g EXCEPT !.pc = "suspended", !.idx = i]
         ELSE [g EXCEPT !.pc = "raised", !.idx = i,
                        !.exc = make_row(g.payload.packages[i]).exc]

\* what the consumer has received once the generator stands at g
yielded(g, got) ==
    IF g.pc = "suspended" THEN Append(got, make_row(g.payload.packages[g.idx]).row)
    ELSE got

\* ------------------------------------------------------------ the actions
Init ==
    /\ uri \in URIs
    /\ result = Pending
    /\ inst = NoInstance
    /\ gen = NoGen
    /\ delivered = <<>>
    /\ http = <<>>
    /\ ncalls = 0

\* the host asks whether the adapter handles the URI, with fast set or not
Supports ==
    /\ result.kind = "pending"
    /\ \E f \in BOOLEAN : result' = supports(uri, f)
    /\ UNCHANGED <<uri, inst, gen, delivered, http, ncalls>>

\* the host instantiates the adapter for a URI it accepted
Construct ==
    /\ result = Return(TRUE)
    /\ inst.state = "none"
    /\ inst' = new_instance(uri)
    /\ UNCHANGED <<uri, result, gen, delivered, http, ncalls>>

\* get_rows(bounds, order): a generator is created, no code of the body runs;
\* the arguments come into play, if at all, at the first next()
GetRows ==
    /\ inst.state = "ok"
    /\ ncalls < MaxFetches
    /\ gen' = [NoGen EXCEPT !.pc = "created"]
    /\ delivered' = <<>>
    /\ ncalls' = ncalls + 1
    /\ UNCHANGED <<uri, result, inst, http>>

\* the first next(): the request is built and sent, the body parsed, and the
\* loop runs to its first yield
FirstNext ==
    /\ gen.pc = "created"
    /\ \E bounds \in BoundsArgs, order \in OrderArgs :
          LET req == build_request(inst, bounds, order)
          IN  IF ~req.ok
              THEN /\ gen' = [gen EXCEPT !.pc = "raised", !.exc = "UnboundLocalError"]
                   /\ UNCHANGED <<http, delivered>>
              ELSE /\ http' = Append(http, [via |-> transport(inst), url |-> req.url,
                                            params |-> req.params])
                   /\ \E payload \in Payloads :
                         LET g == [gen EXCEPT !.payload = payload, !.gets = gen.gets + 1]
                         IN  /\ gen' = IF ~payload.has_packages
                                       THEN [g EXCEPT !.pc = "raised", !.exc = "KeyError"]
                                       ELSE loop_from(g, 1)
                             /\ delivered' = yielded(gen', delivered)
    /\ UNCHANGED <<uri, result, inst, ncalls>>

\* a later next(): the loop resumes after the yield
LaterNext ==
    /\ gen.pc = "suspended"
    /\ gen' = loop_from(gen, gen.idx + 1)
    /\ delivered' = yielded(gen', delivered)
    /\ UNCHANGED <<uri, result, inst, http, ncalls>>

Next == Supports \/ Construct \/ GetRows \/ FirstNext \/ LaterNext

Spec == Init /\ [][Next]_vars

\* ================================================================ claims
\* the parts of the URI under classification
TheSplitPath == Split(urlparse(uri).path, "/")

TheQuery == parse_qs(urlparse(uri).query)

TheAuthority == urlparse(uri).netloc

FirstIs(sp, name) == Len(sp) >= 2 /\ sp[2] = <<name>>

Classified == result.kind # "pending"

IsDate(seg) == fullmatch(DATE_PATTERN, unquote(seg))

Has(q, name) == <<name>> \in DOMAIN q

HasAll(q) == Has(q, "api_key") /\ Has(q, "offset") /\ Has(q, "pageSize")

\* C1: for a URI whose first path segment is "collections", and either value
\* of fast, supports returns True exactly when the authority is
\* api.govinfo.gov, the Collections rule succeeds (at least 4 split-path
\* components, a supported collection, a start date and any end date that
\* match the pattern, offset and pageSize present) and api_key is present;
\* otherwise it returns False.
C1_SupportsIffRule ==
    Classified =>
        LET sp == TheSplitPath
            q == TheQuery
        IN  FirstIs(sp, "collections") =>
                result = Return(/\ TheAuthority = <<"api.govinfo.gov">>
                                /\ Len(sp) >= 4
                                /\ lower(sp[3]) \in {<<"bills">>}
                                /\ IsDate(sp[4])
                                /\ (Len(sp) >= 5 => IsDate(sp[5]))
                                /\ Has(q, "offset") /\ Has(q, "pageSize")
                                /\ Has(q, "api_key"))

\* C2 as written: every URI that lacks api_key, offset or pageSize is
\* classified False.
C2_MissingParamIsFalse ==
    (Classified /\ ~HasAll(TheQuery)) => result = Return(FALSE)

\* C2 as amended: every URI whose first path segment is "collections" and that
\* lacks api_key, offset or pageSize is classified False.
C2_MissingParamIsFalseForCollections ==
    (Classified /\ FirstIs(TheSplitPath, "collections") /\ ~HasAll(TheQuery)) =>
        result = Return(FALSE)

\* a collections URI that lacks pageSize, and nothing else, has been classified
C2_Witness ==
    /\ Classified
    /\ LET sp == TheSplitPath
           q == TheQuery
       IN  /\ FirstIs(sp, "collections")
           /\ TheAuthority = <<"api.govinfo.gov">>
           /\ Len(sp) = 5
           /\ lower(sp[3]) \in COLLECTIONS
           /\ IsDate(sp[4]) /\ IsDate(sp[5])
           /\ Has(q, "api_key") /\ Has(q, "offset") /\ ~Has(q, "pageSize")
    /\ result = Return(FALSE)

\* C3: a collections URI whose start date, or whose 5th path segment (the end
\* date) when there is one, does not fully match the date pattern after
\* URL-decoding is classified False, however many segments the path has.
C3_BadDateIsFalse ==
    Classified =>
        LET sp == TheSplitPath
            badStart == Len(sp) >= 4 /\ ~IsDate(sp[4])
            badEnd == Len(sp) >= 5 /\ ~IsDate(sp[5])
        IN  (FirstIs(sp, "collections") /\ (badStart \/ badEnd)) =>
                result = Return(FALSE)

\* C4: classification of a URI whose first path segment is not exactly
\* "collections" never returns a boolean: it raises the not-implemented error
\* for packages, published and related, and the configuration error for any
\* other first segment, whatever the authority and the query parameters.
C4_OtherEndpointsRaise ==
    Classified =>
        LET sp == TheSplitPath
            unimplemented == FirstIs(sp, "packages") \/ FirstIs(sp, "published")
                                \/ FirstIs(sp, "related")
        IN  ~FirstIs(sp, "collections") =>
                /\ result.kind = "raise"
                /\ unimplemented => result.exc = "NotImplementedError"
                /\ (Len(sp) >= 2 /\ ~unimplemented) => result.exc = "ProgrammingError"

\* an unimplemented endpoint in front of an otherwise acceptable URI, and a
\* wrong-case endpoint, have been classified
C4_Witness ==
    /\ Classified
    /\ TheAuthority = <<"api.govinfo.gov">> /\ HasAll(TheQuery)
    /\ LET sp == TheSplitPath
       IN  /\ Len(sp) = 4
           /\ \/ FirstIs(sp, "published") /\ result = Raise("NotImplementedError")
              \/ FirstIs(sp, "Collections") /\ result = Raise("ProgrammingError")

\* the fetch in progress has sent its request and read the response
Fetched == gen.gets >= 1

TheRecords == gen.payload.packages

\* C5: a fetch whose response lacks the "packages" key, or holds an empty
\* array under it, ends normally with no rows and no error.
C5_NoPackagesIsEmpty ==
    (Fetched /\ (~gen.payload.has_packages \/ TheRecords = <<>>)) =>
        gen.pc = "done" /\ gen.exc = "" /\ delivered = <<>>

\* the rows the test fixture and its like must map to
ExpectedRow(record) ==
    IF record = R_FIXTURE
    THEN [package_id |-> <<"BILLS-118hr796ih">>,
          last_modified |-> [year |-> 2023, month |-> 3, day |-> 1,
                             hour |-> 10, minute |-> 29, second |-> 21],
          package_link |-> <<"https://api.govinfo.gov/packages/BILLS-118hr796ih/summary">>,
          doc_class |-> <<"hr">>,
          title |-> <<"Supply Chain Mapping and Monitoring Act">>,
          congress |-> 118,
          date_issued |-> <<"2", "0", "2", "3", "-", "0", "2", "-", "0", "2">>]
    ELSE [package_id |-> <<"BILLS-117s12is">>,
          last_modified |-> [year |-> 2024, month |-> 2, day |-> 29,
                             hour |-> 23, minute |-> 5, second |-> 0],
          package_link |-> <<"https://api.govinfo.gov/packages/BILLS-117s12is/summary">>,
          doc_class |-> <<"s">>,
          title |-> <<"A bill">>,
          congress |-> 117,
          date_issued |-> <<"2", "0", "2", "1", "-", "1", "-", "5">>]

\* the lastModified of record i is one that the timestamp format refuses
Malformed(i) == TheRecords[i].lastModified = R_BAD_MODIFIED.lastModified

WellFormed(record) == record \in {R_FIXTURE, R_SECOND}

\* the first record that cannot be mapped to a row
FirstUnmappable == Min({i \in 1..Len(TheRecords) : ~WellFormed(TheRecords[i])})

\* the consumer holds the rows of the first n records, in order
DeliveredFirst(n) ==
    /\ Len(delivered) = n
    /\ \A i \in 1..n : delivered[i] = ExpectedRow(TheRecords[i])

C7_OneGetThroughSession ==
    /\ (gen.pc \in {"suspended", "done", "raised"}) => gen.gets = 1
    /\ \A i \in 1..Len(http) : http[i].via = inst.session

\* the URL the URI stands for
ExpectedUrl(sp) ==
    <<"https", "://">> \o TheAuthority \o <<"/", "collections", "/">>
        \o sp[3] \o <<"/">> \o sp[4] \o <<"/">> \o (IF Len(sp) = 5 THEN sp[5] ELSE <<>>)

\* the query parameters the URI stands for: the first value of each
ExpectedParams(q) ==
    [offset |-> q[<<"offset">>][1], pageSize |-> q[<<"pageSize">>][1],
     api_key |-> q[<<"api_key">>][1]]

\* C8: whatever the bounds and the order of each call, every fetch of an
\* instance sends the same request, the one its URI stands for, and the
\* instance is still what construction made it.
C8_SameRequestEveryFetch ==
    inst.state = "ok" =>
        /\ inst = new_instance(uri)
        /\ http # <<>> =>
              LET url == ExpectedUrl(TheSplitPath)
                  params == ExpectedParams(TheQuery)
              IN  \A i \in 1..Len(http) : http[i].url = url /\ http[i].params = params

\* a second fetch has sent its request
C8_Witness == Len(http) >= 2 /\ ncalls >= 2 /\ Fetched

\* C9: a response of n well-formed records yields exactly n rows in the
\* array's order, row i mapped from record i: strings copied, congress an
\* integer, last_modified a timestamp, date_issued the string as it came.
C9_RowsMapRecords ==
    (Fetched /\ gen.payload.has_packages
        /\ \A i \in 1..Len(TheRecords) : WellFormed(TheRecords[i])) =>
        /\ gen.pc \in {"suspended", "done"}
        /\ gen.pc = "suspended" => gen.idx <= Len(TheRecords) /\ DeliveredFirst(gen.idx)
        /\ gen.pc = "done" => DeliveredFirst(Len(TheRecords))

\* both well-formed records, the fixture last, have been fetched to the end
C9_Witness ==
    /\ Fetched /\ gen.pc = "done"
    /\ TheRecords = <<R_SECOND, R_FIXTURE>>
    /\ Len(delivered) = 2

\* the date segments of a request URL: those after the collection
RequestDates(url) == LET parts == Split(url, "/") IN SubSeq(parts, 4, Len(parts))

====
